---- MODULE Spec2Model ----
(***************************************************************************)
(* Model of the "Motor de Evaluacion" service                              *)
(* (CodeCoachBackend/motor_evaluacion/motor.cpp): the POST /evaluate       *)
(* handler and evaluate_code, executed by the HTTP server's worker threads *)
(* over one shared working directory; and of the "Analizador de            *)
(* Soluciones" service (analizador.cpp): the POST /analyze handler and its *)
(* hand-written JSON text functions.                                       *)
(*                                                                         *)
(* Program text that is compared or trimmed (test input, expected output,  *)
(* program output) is a sequence of one-character strings; text that is    *)
(* only tested for emptiness (compiler diagnostics, messages) is a string. *)
(***************************************************************************)
EXTENDS Naturals, Sequences, FiniteSets, TLC

\* ------------------------------------------------------------- bounds
\* NumWorkers: worker threads of the server. MaxTests: test cases of a request.
\* MaxEvents: what one run may hold in all, requests accepted plus refusals
\* of the environment (a file that cannot be opened, a process that cannot be
\* started, a compiler ended by a signal): two requests, or one request and
\* one refusal. MaxSoloEvents (below) is the same limit for the server with
\* one worker thread.
NumWorkers == 2
MaxTests == 2
MaxEvents == 2

Workers == 1..NumWorkers

\* ------------------------------------------------------------- text
LF == "\n"
CR == "\r"

\* ------------------------------------------------------------- the workspace
code_file == "temp_solution.cpp"
exe_file == "temp_solution.exe"
input_file == "temp_input.txt"
output_file == "temp_output.txt"

Files == {code_file, exe_file, input_file, output_file}

\* The paths one evaluate_code call works on.
WorkspacePaths(p) == {code_file, exe_file, input_file, output_file}

NoFile(f) == [exists |-> FALSE, content |-> IF f \in {code_file, exe_file} THEN "" ELSE << >>]
FileOf(c) == [exists |-> TRUE, content |-> c]

\* ------------------------------------------------------------- submissions
\* The submitted sources. What g++ says of each and what the built program
\* does on each input is fixed by the source (a deterministic program).
\*   echo  : builds silently; prints its input and a line feed
\*   crash : builds silently; on "2" never ends, on any other input prints
\*           "p" and dies (exit status 139)
\*   warn  : builds (exit 0) with a warning printed; behaves like echo
\*   bad   : syntax error, exit 1 with diagnostics
\*   slow  : the compiler never finishes on it
Codes == {"echo", "crash", "warn", "bad", "slow"}

Inputs == {<<"1">>, <<"2">>}
Expecteds == {<<"1">>}

CompileOf(c) ==
    CASE c = "bad"   -> [halts |-> TRUE, exit |-> 1, output |-> "error: expected ';'"]
      [] c = "warn"  -> [halts |-> TRUE, exit |-> 0, output |-> "warning: unused variable"]
      [] c = "slow"  -> [halts |-> FALSE, exit |-> 0, output |-> ""]
      [] OTHER       -> [halts |-> TRUE, exit |-> 0, output |-> ""]

Prog(c, in) ==
    CASE c \in {"echo", "warn"} -> [halts |-> TRUE, exit |-> 0, out |-> in \o <<LF>>]
      [] c = "crash" /\ in = <<"2">> -> [halts |-> FALSE, exit |-> 0, out |-> << >>]
      [] OTHER -> [halts |-> TRUE, exit |-> 139, out |-> <<"p">>]

\* ------------------------------------------------------------- requests
RECURSIVE SeqsUpTo(_, _)
SeqsUpTo(S, n) ==
    IF n = 0 THEN {<< >>}
    ELSE LET shorter == SeqsUpTo(S, n - 1)
         IN  shorter \cup {Append(s, x) : s \in {t \in shorter : Len(t) = n - 1}, x \in S}

\* A test case of the request body: an object with "input" and "expected",
\* or one lacking a field.
TestCases == [input : Inputs, expected : Expecteds] \cup {[expected |-> <<"1">>]}

TestLists == SeqsUpTo(TestCases, MaxTests)

\* Request bodies: text that is not JSON, or an object with or without its
\* "code" and "test_cases" members.
Bodies ==
    {[malformed |-> TRUE]}
        \cup [code : Codes, test_cases : TestLists]
        \cup {[code |-> "echo"]} \cup {[test_cases |-> << >>]}

NoBody == [none |-> TRUE]

\* ------------------------------------------------------------- state
VARIABLES
    fs,          \* the working directory: path -> [exists, content]
    pc,          \* where each worker is in the handler
    body,        \* the request body the worker is serving
    eval,        \* evaluate_code's EvaluationResult
    it,          \* position of the range-for over test_cases
    test_num,    \* evaluate_code's test_num
    clock,       \* per worker: whether start_time is taken, and the time since
    res,         \* the HTTP response the worker has set
    served,      \* requests accepted so far
    created,     \* history: the files each evaluation has created
    ran,         \* history: the system() calls of each evaluation
    gpp,         \* history: the g++ invocations of each evaluation
    wfail,       \* history: a file of the evaluation could not be opened
    sfail,       \* history: a process of the evaluation could not be started
    solo,        \* history: no other evaluation was in flight during this one
    prev,        \* history: the request the worker answered before this one
    good,        \* history: every answer so far was a report with compiled=true
    faults,      \* refusals of the environment so far
    limit,       \* requests plus refusals one run may hold
    cmp,         \* the comparison harness (specification SpecCompare)
    sh,          \* the command harness (specification SpecCommands)
    an,          \* the /analyze service (specification SpecAnalyze)
    jp           \* the JSON text harness (specification SpecParse)

vars == <<fs, pc, body, eval, it, test_num, clock, res, served, created, ran, gpp,
          wfail, sfail, solo, prev, good, faults, limit, cmp, sh, an, jp>>

hist == <<created, ran, gpp, wfail, sfail>>
harness == <<limit, cmp, sh, an, jp>>

EmptyEval == [compiled |-> FALSE, compile_error |-> "", test_results |-> << >>,
              total_execution_time_ms |-> 0]

NoResponse == [status |-> 0, ctype |-> "", report |-> EmptyEval, text |-> ""]
JsonResponse(r) == [status |-> 200, ctype |-> "application/json", report |-> r, text |-> ""]
TextResponse(s, t) == [status |-> s, ctype |-> "text/plain", report |-> EmptyEval, text |-> t]

NoCmp == [pc |-> "off", file |-> NoFile(output_file), expected |-> << >>,
          actual |-> << >>, passed |-> FALSE]

NoSh == [pc |-> "off"]

NoAn == [pc |-> "off"]
NoJp == [pc |-> "off"]
AnalyzerOff == an = NoAn /\ jp = NoJp

NoPrev == [body |-> NoBody, res |-> NoResponse, solo |-> FALSE, clean |-> FALSE]

StoppedClock == [running |-> FALSE, ms |-> 0]

EmptyDir == [f \in Files |-> NoFile(f)]

\* The engine before any request.
InitEngine ==
    /\ fs = EmptyDir
    /\ pc = [p \in Workers |-> "idle"]
    /\ body = [p \in Workers |-> NoBody]
    /\ eval = [p \in Workers |-> EmptyEval]
    /\ it = [p \in Workers |-> 1]
    /\ test_num = [p \in Workers |-> 1]
    /\ clock = [p \in Workers |-> StoppedClock]
    /\ res = [p \in Workers |-> NoResponse]
    /\ served = 0
    /\ created = [p \in Workers |-> {}]
    /\ ran = [p \in Workers |-> << >>]
    /\ gpp = [p \in Workers |-> << >>]
    /\ wfail = [p \in Workers |-> FALSE]
    /\ sfail = [p \in Workers |-> FALSE]
    /\ solo = [p \in Workers |-> TRUE]
    /\ prev = [p \in Workers |-> NoPrev]
    /\ good = TRUE
    /\ faults = 0

Init ==
    /\ InitEngine
    /\ limit = MaxEvents
    /\ cmp = NoCmp
    /\ sh = NoSh
    /\ AnalyzerOff

\* ------------------------------------------------------------- helpers
\* A write that leaves a file that is already there as it is.
WriteFileIfAbsent(dir, f, text, opened) ==
    IF opened /\ ~dir[f].exists THEN [dir EXCEPT ![f] = FileOf(text)] ELSE dir

\* std::ofstream f(path); f << text; f.close(): creates or truncates the file
\* and writes the text. When the file cannot be opened the stream is in a
\* failed state, the insertion does nothing and nothing is reported.
WriteFile(dir, f, text, opened) ==
    IF opened THEN [dir EXCEPT ![f] = FileOf(text)] ELSE dir

\* remove(path)
RemoveFile(dir, f) == [dir EXCEPT ![f] = NoFile(f)]

\* g++ temp_solution.cpp -o temp_solution.exe 2>&1
Gpp(dir) ==
    IF ~dir[code_file].exists
    THEN [halts |-> TRUE, exit |-> 1,
          output |-> "g++: error: temp_solution.cpp: No such file or directory",
          dir |-> dir]
    ELSE LET r == CompileOf(dir[code_file].content)
         IN  [halts |-> r.halts, exit |-> r.exit, output |-> r.output,
              dir |-> IF r.halts /\ r.exit = 0
                      THEN [dir EXCEPT ![exe_file] = FileOf(dir[code_file].content)]
                      ELSE dir]

\* The compiler driver ended by a signal before it wrote anything.
GppKilled(dir) == [halts |-> TRUE, exit |-> 137, output |-> "", dir |-> dir]

\* system("temp_solution.exe < temp_input.txt > temp_output.txt") once the
\* shell is running: the redirections are opened left to right, so a missing
\* input file ends the command before the output file is touched; otherwise
\* the output file is created or truncated, then the program is started.
ShellRun(dir) ==
    IF ~dir[input_file].exists
    THEN [started |-> FALSE, halts |-> TRUE, exit |-> 1, wrote |-> FALSE, dir |-> dir]
    ELSE IF ~dir[exe_file].exists
    THEN [started |-> FALSE, halts |-> TRUE, exit |-> 1, wrote |-> TRUE,
          dir |-> [dir EXCEPT ![output_file] = FileOf(<< >>)]]
    ELSE LET r == Prog(dir[exe_file].content, dir[input_file].content)
         IN  [started |-> TRUE, halts |-> r.halts, exit |-> r.exit, wrote |-> TRUE,
              dir |-> [dir EXCEPT ![output_file] = FileOf(r.out)]]

\* system() when the shell could not be started: nothing happens.
NoShell(dir) == [started |-> FALSE, halts |-> TRUE, exit |-> 1, wrote |-> FALSE, dir |-> dir]

\* The text read_file_content returns when the file cannot be opened, kept
\* as one unit of text (it holds no line terminator).
OpenErrorText == <<"[Error: No se pudo abrir el archivo de salida. El programa crasheo?]">>

\* A trim that drops one trailing line feed and stops (the older engine's).
StripTrailingOnce(content) ==
    IF content # << >> /\ content[Len(content)] = LF
    THEN SubSeq(content, 1, Len(content) - 1)
    ELSE content

\* while (!content.empty() && (content.back() == '\n' || content.back() == '\r')) content.pop_back();
RECURSIVE StripTrailing(_)
StripTrailing(content) ==
    IF content # << >> /\ content[Len(content)] \in {LF, CR}
    THEN StripTrailing(SubSeq(content, 1, Len(content) - 1))
    ELSE content

read_file_content(file) ==
    IF ~file.exists THEN OpenErrorText ELSE StripTrailing(file.content)

\* A comparison with the operator turned round.
PassedInverted(actual_output, expected_output) == actual_output # expected_output

\* bool passed = (actual_output == expected_output);
Passed(actual_output, expected_output) == actual_output = expected_output

\* if (!compile_output.empty()): the build is taken to have failed
CompileFailed(compile_output) == compile_output # ""

\* A counter that is never advanced.
NextTestNumStuck(n) == n

\* test_num++
NextTestNum(n) == n + 1

\* What the handler's try block does with the body before evaluate_code is
\* called: 0 when it goes on, else the status of the catch clause reached.
\* json::parse throws parse_error (400); body.at() of a missing member throws
\* out_of_range, which only the std::exception clause catches (500).
BodyStatus(b) ==
    IF "malformed" \in DOMAIN b THEN 400
    ELSE IF "code" \notin DOMAIN b \/ "test_cases" \notin DOMAIN b THEN 500
    ELSE 0

\* test_case.at("input"), test_case.at("expected") both succeed
WellFormedTest(tc) == "input" \in DOMAIN tc /\ "expected" \in DOMAIN tc

InFlight(p) == pc[p] \notin {"idle", "done"}

\* ------------------------------------------------------------- the handler
\* The environment may refuse to open a file or to start a process, or end
\* the compiler driver.
Budget == served + faults < limit
Outcomes == IF Budget THEN {TRUE, FALSE} ELSE {TRUE}
OutcomesAfterAccept == IF served + faults + 1 < limit THEN {TRUE, FALSE} ELSE {TRUE}
CompileOutcomes == IF Budget THEN {"ran", "refused", "killed"} ELSE {"ran"}
Fault(ok) == faults' = IF ok THEN faults ELSE faults + 1

\* The server's pool hands a request to a free worker thread; the threads
\* are interchangeable, so the lowest free one stands for any of them.
Free(p) == pc[p] \in {"idle", "done"}
Dispatched(p) == Free(p) /\ \A q \in Workers : q < p => ~Free(q)

\* The evaluation met no refusal of the environment.
Unrefused(p) ==
    /\ ~wfail[p] /\ ~sfail[p]
    /\ \A i \in 1..Len(gpp[p]) : ~gpp[p][i].killed

\* Time passing for every clock that has been started.
Advance(c, ms) == [q \in Workers |-> IF c[q].running THEN [c[q] EXCEPT !.ms = @ + ms]
                                     ELSE c[q]]

\* A clock started before the compile step.
StartTimeBeforeCompile(compile_ms) == compile_ms

\* auto start_time = std::chrono::high_resolution_clock::now(), taken once
\* the compile step is over: the time on the clock when the loop is entered.
StartTime(compile_ms) == 0

\* A result that takes the exit status for the flag and keeps the output.
ResultByExitStatus(e, r) == [e EXCEPT !.compiled = (r.exit = 0), !.compile_error = r.output]

\* if (!compile_output.empty()) { result.compiled = false;
\* result.compile_error = compile_output; } else result.compiled = true;
ResultAfterCompile(e, r) ==
    IF CompileFailed(r.output)
    THEN [e EXCEPT !.compiled = FALSE, !.compile_error = r.output]
    ELSE [e EXCEPT !.compiled = TRUE]

\* A cleanup that forgets the output file.
RemoveAllButOutput(dir) == RemoveFile(RemoveFile(RemoveFile(dir, code_file), exe_file), input_file)

\* 4. remove(code_file); remove(exe_file); remove(input_file); remove(output_file);
RemoveAll(dir) ==
    RemoveFile(RemoveFile(RemoveFile(RemoveFile(dir, code_file), exe_file),
                          input_file), output_file)

\* svr.Post("/evaluate", ...): parse the body; a body that passes enters
\* evaluate_code, whose first step writes the source file:
\* 1. std::ofstream temp_file(code_file); temp_file << user_code;
Receive(p, b, opened) ==
    /\ Dispatched(p)
    /\ Budget
    /\ served' = served + 1
    /\ body' = [body EXCEPT ![p] = b]
    /\ eval' = [eval EXCEPT ![p] = EmptyEval]
    /\ it' = [it EXCEPT ![p] = 1]
    /\ test_num' = [test_num EXCEPT ![p] = 1]
    /\ ran' = [ran EXCEPT ![p] = << >>]
    /\ gpp' = [gpp EXCEPT ![p] = << >>]
    /\ sfail' = [sfail EXCEPT ![p] = FALSE]
    /\ solo' = [q \in Workers |->
                  IF q = p THEN \A r \in Workers \ {p} : ~InFlight(r)
                  ELSE IF InFlight(q) THEN FALSE ELSE solo[q]]
    /\ prev' = [prev EXCEPT ![p] =
                  IF pc[p] = "done"
                  THEN [body |-> body[p], res |-> res[p], solo |-> solo[p],
                        clean |-> Unrefused(p)]
                  ELSE NoPrev]
    /\ IF BodyStatus(b) = 400
       THEN /\ res' = [res EXCEPT ![p] = TextResponse(400, "Error: JSON mal formado.")]
            /\ pc' = [pc EXCEPT ![p] = "done"]
            /\ created' = [created EXCEPT ![p] = {}]
            /\ wfail' = [wfail EXCEPT ![p] = FALSE]
            /\ good' = FALSE
            /\ opened /\ UNCHANGED <<fs, faults>>
       ELSE IF BodyStatus(b) = 500
       THEN /\ res' = [res EXCEPT ![p] = TextResponse(500, "Error interno del servidor: key not found")]
            /\ pc' = [pc EXCEPT ![p] = "done"]
            /\ created' = [created EXCEPT ![p] = {}]
            /\ wfail' = [wfail EXCEPT ![p] = FALSE]
            /\ good' = FALSE
            /\ opened /\ UNCHANGED <<fs, faults>>
       ELSE /\ res' = [res EXCEPT ![p] = NoResponse]
            /\ fs' = WriteFile(fs, code_file, b.code, opened)
            /\ created' = [created EXCEPT ![p] = IF opened THEN {code_file} ELSE {}]
            /\ wfail' = [wfail EXCEPT ![p] = ~opened]
            /\ Fault(opened)
            /\ pc' = [pc EXCEPT ![p] = "compile"]
            /\ UNCHANGED good
    /\ UNCHANGED <<clock, harness>>

\* 2. exec("g++ ..."): _popen failing throws runtime_error, caught by the
\* handler (500); else fgets collects the output until the compiler closes
\* the pipe, and the output decides between the two branches. 3. A result
\* with compiled=true takes start_time and enters the loop.
Compile(p, outcome) ==
    /\ pc[p] = "compile"
    /\ Fault(outcome = "ran")
    /\ IF outcome = "refused"
       THEN /\ res' = [res EXCEPT ![p] = TextResponse(500, "Error interno del servidor: _popen() failed!")]
            /\ pc' = [pc EXCEPT ![p] = "done"]
            /\ sfail' = [sfail EXCEPT ![p] = TRUE]
            /\ good' = FALSE
            /\ UNCHANGED <<fs, eval, clock, created, gpp>>
       ELSE LET r == IF outcome = "killed" THEN GppKilled(fs) ELSE Gpp(fs)
                e == ResultAfterCompile(eval[p], r)
            IN  /\ fs' = r.dir
                /\ gpp' = [gpp EXCEPT ![p] = Append(@, [halts |-> r.halts, exit |-> r.exit,
                                                         output |-> r.output,
                                                         killed |-> outcome = "killed"])]
                /\ created' = [created EXCEPT ![p] =
                                 IF r.halts /\ r.exit = 0 THEN @ \cup {exe_file} ELSE @]
                /\ IF ~r.halts
                   THEN /\ pc' = [pc EXCEPT ![p] = "compile_blocked"]
                        /\ UNCHANGED <<eval, clock>>
                   ELSE /\ eval' = [eval EXCEPT ![p] = e]
                        /\ pc' = [pc EXCEPT ![p] = IF e.compiled THEN "loop" ELSE "compile_failed"]
                        /\ clock' = IF e.compiled
                                    THEN [Advance(clock, 1) EXCEPT ![p] =
                                            [running |-> TRUE, ms |-> StartTime(1)]]
                                    ELSE Advance(clock, 1)
                /\ UNCHANGED <<res, sfail, good>>
    /\ UNCHANGED <<body, it, test_num, served, ran, wfail, solo, prev, harness>>

\* remove(code_file); return eval;  and the handler answers with the report.
CompileFailedReturn(p) ==
    /\ pc[p] = "compile_failed"
    /\ fs' = RemoveFile(fs, code_file)
    /\ res' = [res EXCEPT ![p] = JsonResponse(eval[p])]
    /\ pc' = [pc EXCEPT ![p] = "done"]
    /\ good' = FALSE
    /\ UNCHANGED <<body, eval, it, test_num, clock, served, faults, solo, prev, harness>>
    /\ UNCHANGED hist

\* for (const auto& test_case : test_cases) { input = test_case.at("input");
\* expected_output = test_case.at("expected"); a missing member throws
\* out_of_range out of evaluate_code into the handler's catch (500). Then
\* a. std::ofstream temp_input(input_file); temp_input << input;
TestStart(p, opened) ==
    /\ pc[p] = "loop"
    /\ it[p] <= Len(body[p].test_cases)
    /\ IF WellFormedTest(body[p].test_cases[it[p]])
       THEN /\ fs' = WriteFile(fs, input_file, body[p].test_cases[it[p]].input, opened)
            /\ created' = [created EXCEPT ![p] = IF opened THEN @ \cup {input_file} ELSE @]
            /\ wfail' = [wfail EXCEPT ![p] = @ \/ ~opened]
            /\ Fault(opened)
            /\ pc' = [pc EXCEPT ![p] = "run"]
            /\ UNCHANGED <<res, clock, good>>
       ELSE /\ res' = [res EXCEPT ![p] = TextResponse(500, "Error interno del servidor: key not found")]
            /\ pc' = [pc EXCEPT ![p] = "done"]
            /\ clock' = [clock EXCEPT ![p] = StoppedClock]
            /\ good' = FALSE
            /\ opened /\ UNCHANGED <<fs, created, wfail, faults>>
    /\ UNCHANGED <<body, eval, it, test_num, served, ran, gpp, sfail, solo, prev, harness>>

\* b. system(command): its return value is not looked at. A shell that cannot
\* be started changes nothing; a program that never ends never lets system()
\* return.
RunTest(p, spawned) ==
    /\ pc[p] = "run"
    /\ Fault(spawned)
    /\ LET r == IF spawned THEN ShellRun(fs) ELSE NoShell(fs)
       IN  /\ fs' = r.dir
           /\ ran' = [ran EXCEPT ![p] = Append(@, [test |-> it[p], spawned |-> spawned,
                                                    started |-> r.started,
                                                    halts |-> r.halts, exit |-> r.exit,
                                                    wrote |-> r.wrote,
                                                    out |-> r.dir[output_file]])]
           /\ created' = [created EXCEPT ![p] = IF r.wrote THEN @ \cup {output_file} ELSE @]
           /\ pc' = [pc EXCEPT ![p] = IF r.halts THEN "read_output" ELSE "run_blocked"]
           /\ clock' = IF spawned /\ r.halts THEN Advance(clock, 1) ELSE clock
    /\ sfail' = [sfail EXCEPT ![p] = @ \/ ~spawned]
    /\ UNCHANGED <<body, eval, it, test_num, res, served, gpp, wfail, solo, prev, good, harness>>

\* c. actual_output = read_file_content(output_file); passed; push_back;
\* test_num++; and the loop moves to the next test case.
ReadOutput(p) ==
    /\ pc[p] = "read_output"
    /\ LET tc == body[p].test_cases[it[p]]
           actual_output == read_file_content(fs[output_file])
       IN  eval' = [eval EXCEPT ![p].test_results =
                      Append(@, [test_case |-> test_num[p],
                                 input |-> tc.input,
                                 expected |-> tc.expected,
                                 actual |-> actual_output,
                                 passed |-> Passed(actual_output, tc.expected)])]
    /\ test_num' = [test_num EXCEPT ![p] = NextTestNum(@)]
    /\ it' = [it EXCEPT ![p] = @ + 1]
    /\ pc' = [pc EXCEPT ![p] = "loop"]
    /\ UNCHANGED <<fs, body, clock, res, served, faults, solo, prev, good, harness>>
    /\ UNCHANGED hist

\* The loop is over: end_time is taken and total_execution_time_ms is the
\* time since start_time. 4. remove the four temporary files; return eval;
\* and the handler answers with the report.
Cleanup(p) ==
    /\ pc[p] = "loop"
    /\ it[p] > Len(body[p].test_cases)
    /\ LET e == [eval[p] EXCEPT !.total_execution_time_ms = clock[p].ms]
       IN  /\ eval' = [eval EXCEPT ![p] = e]
           /\ res' = [res EXCEPT ![p] = JsonResponse(e)]
    /\ clock' = [clock EXCEPT ![p] = StoppedClock]
    /\ fs' = RemoveAll(fs)
    /\ pc' = [pc EXCEPT ![p] = "done"]
    /\ UNCHANGED <<body, it, test_num, served, faults, solo, prev, good, harness>>
    /\ UNCHANGED hist

WorkerNext(p) ==
    \/ \E b \in Bodies, opened \in OutcomesAfterAccept : Receive(p, b, opened)
    \/ \E outcome \in CompileOutcomes : Compile(p, outcome)
    \/ CompileFailedReturn(p)
    \/ \E opened \in Outcomes : TestStart(p, opened)
    \/ \E spawned \in Outcomes : RunTest(p, spawned)
    \/ ReadOutput(p)
    \/ Cleanup(p)

Next == \E p \in Workers : WorkerNext(p)

Spec == Init /\ [][Next]_vars

\* ------------------------------------------------------------- one at a time
\* The same server with one worker thread: evaluations follow one another.
MaxSoloEvents == 3

InitSolo ==
    /\ InitEngine
    /\ limit = MaxSoloEvents
    /\ cmp = NoCmp
    /\ sh = NoSh
    /\ AnalyzerOff

NextSolo == WorkerNext(1)

SpecSolo == InitSolo /\ [][NextSolo]_vars

\* ------------------------------------------------------------- the comparison alone
\* Lines c. of the test loop on their own: any output file, any expected
\* text over an alphabet with line feed, carriage return and space.
MaxLen == 2
Alphabet == {"a", " ", LF, CR}
Texts == SeqsUpTo(Alphabet, MaxLen)

InitCompare ==
    /\ InitEngine
    /\ limit = MaxEvents
    /\ sh = NoSh
    /\ AnalyzerOff
    /\ cmp \in [pc : {"ready"},
                file : {NoFile(output_file)} \cup {FileOf(t) : t \in Texts},
                expected : Texts \cup {OpenErrorText},
                actual : {<< >>}, passed : {FALSE}]

Compare ==
    /\ cmp.pc = "ready"
    /\ LET actual_output == read_file_content(cmp.file)
       IN  cmp' = [cmp EXCEPT !.pc = "compared", !.actual = actual_output,
                              !.passed = Passed(actual_output, cmp.expected)]
    /\ UNCHANGED <<fs, pc, body, eval, it, test_num, clock, res, served, faults,
                   solo, prev, good, limit, sh, an, jp>>
    /\ UNCHANGED hist

SpecCompare == InitCompare /\ [][Compare]_vars

\* ------------------------------------------------------------- the commands alone
\* The strings handed to the shell, for two submissions side by side, in the
\* engine of motor.cpp and in the older copy of the engine (part_002).
\* const std::string code_file..., the "g++ " + code_file + " -o " + exe_file
\* of step 2, with the " 2>&1" exec appends.
CompileCommand(user_code) == <<"g++ ", code_file, " -o ", exe_file, " 2>&1">>

\* std::string command = exe_file + " < " + input_file + " > " + output_file;
RunCommand(input) == <<exe_file, " < ", input_file, " > ", output_file>>

\* exec("g++ temp_solution.cpp -o temp_solution.exe 2>&1") and exec's own " 2>&1"
OlderCompileCommand(user_code) ==
    <<"g++ temp_solution.cpp -o temp_solution.exe 2>&1", " 2>&1">>

\* std::string command = "echo " + input + " | temp_solution.exe";
OlderRunCommand(input) == <<"echo ">> \o input \o <<" | temp_solution.exe", " 2>&1">>

Engines == {"motor", "older"}

CommandsOf(engine, submission) ==
    IF engine = "motor"
    THEN <<CompileCommand(submission.code), RunCommand(submission.input)>>
    ELSE <<OlderCompileCommand(submission.code), OlderRunCommand(submission.input)>>

\* Test inputs, one of them carrying a shell separator.
ShellInputs == Inputs \cup {<<"1", ";", "x">>}
Submissions == [code : Codes, input : ShellInputs]

InitCommands ==
    /\ InitEngine
    /\ limit = MaxEvents
    /\ cmp = NoCmp
    /\ AnalyzerOff
    /\ sh \in [pc : {"ready"}, engine : Engines, a : Submissions, b : Submissions,
               cmds_a : {<< >>}, cmds_b : {<< >>}]

BuildCommands ==
    /\ sh.pc = "ready"
    /\ sh' = [sh EXCEPT !.pc = "built",
                        !.cmds_a = CommandsOf(sh.engine, sh.a),
                        !.cmds_b = CommandsOf(sh.engine, sh.b)]
    /\ UNCHANGED <<fs, pc, body, eval, it, test_num, clock, res, served, faults,
                   solo, prev, good, limit, cmp, an, jp>>
    /\ UNCHANGED hist

SpecCommands == InitCommands /\ [][BuildCommands]_vars

\* ------------------------------------------------------------- the analyzer
\* The "Analizador de Soluciones" service (analizador.cpp): JSON text is
\* handled by hand, as sequences of characters.
DQ == "\""
BS == "\\"
TAB == "\t"

\* json_str.find(needle, from): the first position at or after from where
\* needle occurs, 0 standing for std::string::npos. Positions count from 1.
Find(json_str, needle, from) ==
    LET hits == {i \in from..(Len(json_str) - Len(needle) + 1) :
                    SubSeq(json_str, i, i + Len(needle) - 1) = needle}
    IN  IF hits = {} THEN 0 ELSE CHOOSE i \in hits : \A j \in hits : i <= j

\* std::string manual_json_parse(const std::string& json_str, const std::string& key)
manual_json_parse(json_str, key) ==
    LET key_to_find == <<DQ>> \o key \o <<DQ, ":", " ", DQ>>
        found == Find(json_str, key_to_find, 1)
    IN  IF found = 0 THEN << >>
        ELSE LET start == found + Len(key_to_find)
                 end == Find(json_str, <<DQ>>, start)
             IN  IF end = 0 THEN << >>
                 ELSE SubSeq(json_str, start, end - 1)

\* the switch of escape_json_string
EscapeChar(c) ==
    CASE c = DQ  -> <<BS, DQ>>
      [] c = BS  -> <<BS, BS>>
      [] c = LF  -> <<BS, "n">>
      [] c = CR  -> <<BS, "r">>
      [] c = TAB -> <<BS, "t">>
      [] OTHER   -> <<c>>

\* std::string escape_json_string(const std::string& input)
RECURSIVE escape_json_string(_)
escape_json_string(input) ==
    IF input = << >> THEN << >>
    ELSE EscapeChar(Head(input)) \o escape_json_string(Tail(input))

\* while ((pos = feedback.find("\\n", pos)) != npos) { feedback.replace(pos, 2, "\n"); pos += 1; }
RECURSIVE UnescapeNewlines(_, _)
UnescapeNewlines(feedback, pos) ==
    LET at == Find(feedback, <<BS, "n">>, pos)
    IN  IF at = 0 THEN feedback
        ELSE UnescapeNewlines(SubSeq(feedback, 1, at - 1) \o <<LF>>
                                \o SubSeq(feedback, at + 2, Len(feedback)), at + 1)

CodeKey == <<"c", "o", "d", "e">>
ResultsKey == <<"r", "e", "s", "u", "l", "t", "s">>
TextKey == <<"t", "e", "x", "t">>
FeedbackKey == <<"f", "e", "e", "d", "b", "a", "c", "k">>

\* "key": "value", the value escaped as a JSON client escapes it
Member(key, value) == <<DQ>> \o key \o <<DQ, ":", " ", DQ>> \o escape_json_string(value) \o <<DQ>>

\* What a client puts in a request: each member is there or not.
Absent == [present |-> FALSE, value |-> << >>]
Given(v) == [present |-> TRUE, value |-> v]
Values == {<< >>, <<"a">>, <<DQ, "a">>, <<"a", DQ, "b">>}
Members == {Absent} \cup {Given(v) : v \in Values}
Requests == [code : Members, results : Members]

BodyText(r) ==
    <<"{">>
    \o (IF r.code.present THEN Member(CodeKey, r.code.value) ELSE << >>)
    \o (IF r.code.present /\ r.results.present THEN <<",", " ">> ELSE << >>)
    \o (IF r.results.present THEN Member(ResultsKey, r.results.value) ELSE << >>)
    \o <<"}">>

\* std::getenv("GOOGLE_API_KEY"): not set, set to nothing, set to a key.
Environments == {[set |-> FALSE, value |-> ""], [set |-> TRUE, value |-> ""],
                 [set |-> TRUE, value |-> "K"]}

\* std::string get_google_api_key()
get_google_api_key(env) == IF ~env.set THEN "" ELSE env.value

\* What cli.Post may come back with: no connection, an error status, a
\* candidate text, a body without one.
Replies ==
    {[connected |-> FALSE, status |-> 0, body |-> << >>],
     [connected |-> TRUE, status |-> 500, body |-> <<"{", "}">>],
     [connected |-> TRUE, status |-> 200, body |-> <<"{", "}">>],
     [connected |-> TRUE, status |-> 200,
      body |-> <<"{">> \o Member(TextKey, <<"h", LF, "i">>) \o <<"}">>]}

NoKeyText == <<"Error del servidor: La clave API de Google no esta configurada.">>
NoTextText == <<"Error: Respuesta invalida del Coach AI (no se encontro 'text').">>
StatusText == <<"Error: No se pudo contactar al Coach AI. Estado: 500">>
NetworkText == <<"Error: Falla de conexion con el Coach AI.">>
BadRequestText == <<"Error: JSON mal formado. Se esperan 'code' y 'results'.">>

\* A test that rejects only a request with neither value.
MissingBoth(user_code, results) == user_code = << >> /\ results = << >>

\* if (user_code.empty() || results.empty())
MissingValue(user_code, results) == user_code = << >> \/ results = << >>

\* the part of get_llm_feedback after cli.Post has returned
FeedbackOf(reply) ==
    IF ~reply.connected THEN NetworkText
    ELSE IF reply.status # 200 THEN StatusText
    ELSE LET feedback == manual_json_parse(reply.body, TextKey)
         IN  IF feedback = << >> THEN NoTextText ELSE UnescapeNewlines(feedback, 1)

IdleAnalyzer(env) ==
    [pc |-> "idle", env |-> env, req |-> [code |-> Absent, results |-> Absent],
     user_code |-> << >>, results |-> << >>, calls |-> 0, payload |-> << >>,
     feedback |-> << >>, status |-> 0, ctype |-> "", content |-> << >>]

InitAnalyze ==
    /\ InitEngine
    /\ limit = MaxEvents
    /\ cmp = NoCmp
    /\ sh = NoSh
    /\ jp = NoJp
    /\ an \in {IdleAnalyzer(env) : env \in Environments}

\* The evaluation engine is another process: nothing of it changes here.
EngineUnchanged ==
    /\ UNCHANGED <<fs, pc, body, eval, it, test_num, clock, res, served, faults,
                   solo, prev, good, limit, cmp, sh, jp>>
    /\ UNCHANGED hist

\* svr.Post("/analyze", ...): both values are taken from the body by hand;
\* a request without one of them is answered 400.
AnalyzeReceive(r) ==
    /\ an.pc \in {"idle", "done"}
    /\ EngineUnchanged
    /\ LET user_code == manual_json_parse(BodyText(r), CodeKey)
           results == manual_json_parse(BodyText(r), ResultsKey)
           a == [IdleAnalyzer(an.env) EXCEPT !.req = r, !.user_code = user_code,
                                             !.results = results]
       IN  an' = IF MissingValue(user_code, results)
                 THEN [a EXCEPT !.pc = "done", !.status = 400, !.ctype = "text/plain",
                                !.content = BadRequestText]
                 ELSE [a EXCEPT !.pc = "get_key"]

\* get_llm_feedback: without a key the error text is the feedback.
GetKey ==
    /\ an.pc = "get_key"
    /\ EngineUnchanged
    /\ an' = IF get_google_api_key(an.env) = ""
             THEN [an EXCEPT !.pc = "respond", !.feedback = NoKeyText]
             ELSE [an EXCEPT !.pc = "post"]

\* payload = ... escape_json_string(full_prompt) ...; cli.Post(url, payload,
\* "application/json") and what is made of the reply.
PostToLLM(reply) ==
    /\ an.pc = "post"
    /\ EngineUnchanged
    /\ an' = [an EXCEPT !.pc = "respond", !.calls = @ + 1,
                        !.payload = <<"{">> \o Member(TextKey, an.user_code \o <<LF>> \o an.results)
                                    \o <<"}">>,
                        !.feedback = FeedbackOf(reply)]

\* response_json = "{\"feedback\": \"" + escape_json_string(feedback) + "\"}";
\* res.set_content(response_json, "application/json");
Respond ==
    /\ an.pc = "respond"
    /\ EngineUnchanged
    /\ an' = [an EXCEPT !.pc = "done", !.status = 200, !.ctype = "application/json",
                        !.content = <<"{">> \o Member(FeedbackKey, an.feedback) \o <<"}">>]

NextAnalyze ==
    \/ \E r \in Requests : AnalyzeReceive(r)
    \/ GetKey
    \/ \E reply \in Replies : PostToLLM(reply)
    \/ Respond

SpecAnalyze == InitAnalyze /\ [][NextAnalyze]_vars

\* ------------------------------------------------------------- the JSON text alone
\* manual_json_parse applied to the object text built with
\* escape_json_string, for every string over an alphabet with the double
\* quote and the backslash; the key is there or another key is.
MaxJsonLen == 3
JsonAlphabet == {"a", DQ, BS}
JsonStrings == SeqsUpTo(JsonAlphabet, MaxJsonLen)
KeyK == <<"k">>
KeyJ == <<"j">>

ObjectText(key, value) == <<"{">> \o Member(key, value) \o <<"}">>

InitParse ==
    /\ InitEngine
    /\ limit = MaxEvents
    /\ cmp = NoCmp
    /\ sh = NoSh
    /\ an = NoAn
    /\ jp \in [pc : {"ready"}, s : JsonStrings, has_key : BOOLEAN,
               text : {<< >>}, parsed : {<< >>}]

ParseObject ==
    /\ jp.pc = "ready"
    /\ LET text == ObjectText(IF jp.has_key THEN KeyK ELSE KeyJ, jp.s)
       IN  jp' = [jp EXCEPT !.pc = "parsed", !.text = text,
                            !.parsed = manual_json_parse(text, KeyK)]
    /\ UNCHANGED <<fs, pc, body, eval, it, test_num, clock, res, served, faults,
                   solo, prev, good, limit, cmp, sh, an>>
    /\ UNCHANGED hist

SpecParse == InitParse /\ [][ParseObject]_vars

\* ------------------------------------------------------------- properties
Answered(p) == pc[p] = "done"
Reported(p) == pc[p] = "done" /\ res[p].status = 200
Results(p) == res[p].report.test_results

\* C1: at every moment, the paths used by one evaluation in flight are
\* disjoint from the paths used by every other evaluation in flight.
C1_DisjointWorkspaces ==
    \A p, q \in Workers :
        p # q /\ InFlight(p) /\ InFlight(q)
            => WorkspacePaths(p) \cap WorkspacePaths(q) = {}

\* What a submission's own source and own tests give when nothing interferes.
OwnCompiled(c) == ~CompileFailed(CompileOf(c).output)
OwnActual(c, in) == StripTrailing(Prog(c, in).out)
Undisturbed(p) == Unrefused(p)

\* C2: every report matches its own code and tests, whatever the
\* interleaving with other evaluations: the compiled flag is that of its own
\* source and each actual is the output of its own program on its own input.
C2_NoCrossContamination ==
    \A p \in Workers :
        Reported(p) /\ Undisturbed(p) =>
            /\ res[p].report.compiled = OwnCompiled(body[p].code)
            /\ CompileOf(body[p].code).exit = 0 =>
                 \A i \in 1..Len(Results(p)) :
                    Results(p)[i].actual = OwnActual(body[p].code, Results(p)[i].input)

\* C3: when an evaluation has returned or propagated its error, every file
\* it created has been deleted (stated for runs the environment never
\* refused anything in, so that every exit path is one of the code's own).
C3_AllFilesRemoved ==
    \A p \in Workers :
        Answered(p) /\ faults = 0 => \A f \in created[p] : ~fs[f].exists

\* C4: an evaluation whose compile step fails (g++ exits non-zero) runs no
\* test and reports compiled=false, a non-empty compile_error, no test result.
C4_CompileFailureShortCircuits ==
    \A p \in Workers :
        gpp[p] # << >> /\ gpp[p][1].exit # 0 =>
            /\ ran[p] = << >>
            /\ Reported(p) =>
                 /\ ~res[p].report.compiled
                 /\ res[p].report.compile_error # ""
                 /\ res[p].report.test_results = << >>

\* C5: compiled is true exactly when the compiler's exit status is zero,
\* whether or not it printed anything.
C5_ExitStatusDecides ==
    \A p \in Workers :
        Reported(p) /\ gpp[p] # << >> =>
            (res[p].report.compiled <=> gpp[p][1].exit = 0)

Terminators == {LF, CR}
StripOne(s) == IF s # << >> /\ s[Len(s)] = LF THEN SubSeq(s, 1, Len(s) - 1) ELSE s

C8_HungRunIsEnded ==
    \A p \in Workers : pc[p] = "run_blocked" => ENABLED WorkerNext(p)

BadRequest(b) ==
    \/ "malformed" \in DOMAIN b
    \/ "code" \notin DOMAIN b
    \/ "test_cases" \notin DOMAIN b
    \/ \E i \in 1..Len(b.test_cases) : ~WellFormedTest(b.test_cases[i])

\* C9: a malformed body or one with a missing field is answered 400 with a
\* plain-text message, before any file is created or the compiler is run.
C9_BadRequestRejectedEarly ==
    \A p \in Workers :
        Answered(p) /\ BadRequest(body[p]) =>
            /\ res[p].status = 400 /\ res[p].ctype = "text/plain"
            /\ created[p] = {} /\ gpp[p] = << >>

\* C10: an evaluation one of whose files could not be written ends in an
\* internal error (500), never in a report.
C10_WriteFailureAborts ==
    \A p \in Workers : Answered(p) /\ wfail[p] => res[p].status = 500

\* C11: a child process that cannot be started, the compiler or the run of
\* any test, ends the evaluation in an internal error (500, plain text), and
\* no outcome is recorded for a run whose process could not be started.
C11_SpawnFailureIsFatal ==
    \A p \in Workers :
        /\ Answered(p) /\ sfail[p] =>
              res[p].status = 500 /\ res[p].ctype = "text/plain"
        /\ \A i \in 1..Len(ran[p]) :
              ~ran[p][i].spawned => Len(eval[p].test_results) < i

\* C12: submission content never reaches a shell command line: for any two
\* submissions the compile command and the run command are the same strings.
C12_CommandsIndependentOfSubmission ==
    sh.pc = "built" => sh.cmds_a = sh.cmds_b

\* C13: a compiler that does not terminate is cut off by the compile-time
\* bound and the evaluation returns a report (compiled=false, a 'timed out'
\* diagnostic, no test result): a worker waiting for the compiler's output
\* still has a step to take.
C13_HungCompileIsCutOff ==
    \A p \in Workers : pc[p] = "compile_blocked" => ENABLED WorkerNext(p)

PassedFlags(r) == [i \in 1..Len(r.test_results) |-> r.test_results[i].passed]

\* C14: the same request evaluated twice in sequence, with no other
\* evaluation in flight and nothing refused by the environment in either,
\* is answered the same way: the same status and, for reports, the same
\* compiled flag and the same sequence of passed flags, whatever earlier
\* evaluations left in the working directory.
C14_SequentialDeterminism ==
    \A p \in Workers :
        /\ Answered(p) /\ prev[p].body = body[p]
        /\ solo[p] /\ prev[p].solo /\ Unrefused(p) /\ prev[p].clean
        => /\ res[p].status = prev[p].res.status
           /\ res[p].report.compiled = prev[p].res.report.compiled
           /\ PassedFlags(res[p].report) = PassedFlags(prev[p].res.report)

\* The third request of a run repeats the second, and is reported with a
\* passed and a failed test.
C14_Witness ==
    \E p \in Workers :
        /\ Reported(p) /\ prev[p].body = body[p] /\ served = 3
        /\ solo[p] /\ prev[p].solo /\ Unrefused(p) /\ prev[p].clean
        /\ res[p].report.compiled
        /\ PassedFlags(res[p].report) = <<TRUE, FALSE>>

\* C15: an evaluation with an empty test-case list, alone and with nothing
\* refused by the environment, returns a report whose compiled flag says
\* whether the source built (g++ exit status zero) and whose test_results
\* is empty; no run step occurs; and the files created for the compile are
\* removed.
C15_EmptyTestList ==
    \A p \in Workers :
        /\ Answered(p) /\ solo[p] /\ Unrefused(p)
        /\ "test_cases" \in DOMAIN body[p] /\ "code" \in DOMAIN body[p]
        /\ body[p].test_cases = << >>
        => /\ Reported(p)
           /\ res[p].report.compiled <=> gpp[p][1].exit = 0
           /\ res[p].report.test_results = << >>
           /\ ran[p] = << >>
           /\ \A f \in created[p] : ~fs[f].exists

\* C16: in every report, and in every result under construction,
\* compiled=true implies that compile_error is the empty string.
C16_CompiledHasNoDiagnostics ==
    \A p \in Workers :
        /\ eval[p].compiled => eval[p].compile_error = ""
        /\ Reported(p) /\ res[p].report.compiled => res[p].report.compile_error = ""

\* A report with compiled=true and a test outcome, returned after the
\* compiler has run.
C16_Witness ==
    \E p \in Workers :
        /\ Reported(p) /\ res[p].report.compiled /\ res[p].report.compile_error = ""
        /\ gpp[p] # << >> /\ gpp[p][1].exit = 0
        /\ Len(Results(p)) >= 1

\* C17: within one evaluation the actual reported for test i is the output
\* written by the run of test i: a run that wrote no output file of its own
\* is never reported with the output that the run of test i-1 left in the
\* file.
C17_NoLeftoverOutput ==
    \A p \in Workers :
        solo[p] =>
            \A i \in 2..Len(eval[p].test_results) :
                ran[p][i - 1].wrote /\ ~ran[p][i].wrote =>
                    eval[p].test_results[i].actual # read_file_content(ran[p][i - 1].out)

\* C18: when evaluations run one at a time and every one so far has returned
\* a report with compiled=true, none of the four temporary files exists
\* between evaluations: the working directory is as it was at the start.
C18_CleanBetweenEvaluations ==
    good /\ (\A p \in Workers : ~InFlight(p)) => fs = EmptyDir

\* Three evaluations in a row, each reported with compiled=true, the last
\* with two test outcomes, and the directory empty again.
C18_Witness ==
    /\ good /\ served = 3 /\ fs = EmptyDir
    /\ \E p \in Workers :
          /\ Reported(p) /\ res[p].report.compiled /\ Len(Results(p)) = 2
          /\ created[p] = Files
          /\ prev[p].res.status = 200

\* C19: in every TestOutcome, recorded or reported, passed is true exactly
\* when the actual string equals the expected string; an output file that
\* cannot be opened, reported through the fixed error text as actual, gives
\* passed=false for any expected other than that text.
C19_PassedIsEquality ==
    \A p \in Workers :
        /\ \A i \in 1..Len(eval[p].test_results) :
              LET o == eval[p].test_results[i]
              IN  o.passed <=> o.actual = o.expected
        /\ \A i \in 1..Len(Results(p)) :
              LET o == Results(p)[i]
              IN  /\ o.passed <=> o.actual = o.expected
                  /\ o.actual = OpenErrorText /\ o.expected # OpenErrorText => ~o.passed

\* A report with a passed outcome and an outcome whose output file could
\* not be opened.
C19_Witness ==
    \E p \in Workers :
        /\ Reported(p) /\ Len(Results(p)) = 2
        /\ \E i, j \in 1..2 :
              /\ Results(p)[i].passed /\ Results(p)[i].actual = <<"1">>
              /\ Results(p)[j].actual = OpenErrorText /\ ~Results(p)[j].passed

SpawnedRuns(p) == Cardinality({i \in 1..Len(ran[p]) : ran[p][i].spawned})

\* C20: total_execution_time_ms covers the test-run phase only. With every
\* compile and every run that was started taking one unit of time: a report
\* with compiled=false has total_execution_time_ms = 0; a report with
\* compiled=true has at least the time of its own runs, and exactly that
\* time, the compile's excluded, when no other evaluation was in flight.
C20_ClockCoversTestRunsOnly ==
    \A p \in Workers :
        Reported(p) =>
            LET total == res[p].report.total_execution_time_ms
            IN  IF res[p].report.compiled
                THEN /\ total >= SpawnedRuns(p)
                     /\ solo[p] => total = SpawnedRuns(p)
                ELSE total = 0

\* A report of two runs made after a compile that took its time, answered
\* after a report with compiled=false.
C20_Witness ==
    \E p \in Workers :
        /\ Reported(p) /\ res[p].report.compiled /\ solo[p]
        /\ gpp[p] # << >> /\ ~gpp[p][1].killed
        /\ SpawnedRuns(p) = 2 /\ res[p].report.total_execution_time_ms = 2
        /\ prev[p].res.status = 200 /\ ~prev[p].res.report.compiled
        /\ prev[p].res.report.compile_error # ""
        /\ prev[p].res.report.total_execution_time_ms = 0

HasValue(m) == m.present /\ m.value # << >>

\* C21: in the /analyze service the provider is contacted only for a request
\* that carries a non-empty code and a non-empty results value, and only
\* when GOOGLE_API_KEY is configured; a request missing either value is
\* answered 400 with no outbound call; with no API key the answer carries
\* the error text as feedback, with no outbound call.
C21_ProviderContactedOnlyWhenComplete ==
    /\ an.pc \in {"post", "respond", "done"} /\ (an.pc = "post" \/ an.calls > 0) =>
          /\ HasValue(an.req.code) /\ HasValue(an.req.results)
          /\ an.env.set /\ an.env.value # ""
    /\ an.pc = "done" /\ ~(HasValue(an.req.code) /\ HasValue(an.req.results)) =>
          an.status = 400 /\ an.ctype = "text/plain" /\ an.calls = 0
    /\ /\ an.pc = "done" /\ HasValue(an.req.code) /\ HasValue(an.req.results)
       /\ get_google_api_key(an.env) = ""
       => /\ an.status = 200 /\ an.calls = 0 /\ an.feedback = NoKeyText
          /\ manual_json_parse(an.content, FeedbackKey) = NoKeyText

\* A complete request answered after one call to the provider, its code
\* value beginning with a double quote.
C21_Witness ==
    /\ an.pc = "done" /\ an.calls = 1 /\ an.status = 200
    /\ an.req.code = Given(<<DQ, "a">>) /\ an.req.results = Given(<<"a">>)
    /\ an.feedback = <<"h", LF, "i">>

\* C22: manual_json_parse returns the whole string value of a key: applied
\* to the object text {"k": "<escape_json_string(s)>"} with key k it returns
\* escape_json_string(s) in full, and it returns the empty string only when
\* the key is absent or the value is empty.
C22_ParseReturnsWholeValue ==
    jp.pc = "parsed" =>
        /\ jp.has_key => jp.parsed = escape_json_string(jp.s)
        /\ jp.parsed = << >> => ~jp.has_key \/ escape_json_string(jp.s) = << >>

====
